---- MODULE Spec2Model ----
(***************************************************************************)
(* The ToDo application: the React client of frontend/src/App.js, the      *)
(* REST API it calls (create, list, get, update, delete of todo items),    *)
(* and a second API client that shares the collection.                     *)
(*                                                                         *)
(* Every async handler of App.js is split at its await: the part before    *)
(* the await sends a request, the part after it runs when the response     *)
(* arrives.  Requests in flight are records in reqs; the service handles   *)
(* one request atomically per step, in any order.                          *)
(***************************************************************************)
EXTENDS Integers, Sequences, FiniteSets, TLC

VARIABLES
    store,      \* the collection: a function from the ids present to documents
    nextId,     \* the next identifier the store assigns
    clock,      \* the store's creation clock (created_at)
    deleted,    \* history: the ids whose delete has succeeded
    reqs,       \* requests in flight and responses not yet received
    nextRid,    \* the next request number
    extCount,   \* the number of requests the second client has sent
    mounted,    \* whether the effect of App has run
    env,        \* process.env.REACT_APP_API_BASE_URL as the bundle was built
    todos,      \* App state: todos
    loading,    \* App state: loading
    error,      \* App state: error
    formData,   \* App state: formData
    editingId,  \* App state: editingId
    stale       \* history: the list requests that were in flight when the
                \* banner of a failed create, update, toggle or delete rose

vars == <<store, nextId, clock, deleted, reqs, nextRid, extCount, mounted,
          env, todos, loading, error, formData, editingId, stale>>

uiVars == <<todos, loading, error, formData, editingId>>
storeVars == <<store, nextId, clock, deleted>>

----------------------------------------------------------------------------
(* Bounds *)

MaxIds == 2
MaxReqs == 5
MaxApi == 2

----------------------------------------------------------------------------
(* Values *)

Null == 0
NoError == "null"
Ids == 1 .. MaxIds
\* the identifiers the second client addresses
ExtIds == {1, 2}

\* strings are sequences of characters, so that trim is computed
Empty == << >>

\* what the user types into the form
Titles == { <<" ">>, <<"a">> }
Descs == { << >>, <<"x">> }

EmptyBody == [k \in {} |-> Empty]

\* every request body over the mutable fields, for what holds of any payload
AllTitles == { << >>, <<" ">>, <<"a">>, <<"b">>, <<" ", "a">> }
TitleParts == {EmptyBody} \cup { [title |-> t] : t \in AllTitles }
DescParts == {EmptyBody} \cup { [description |-> d] : d \in Descs }
CompletedParts == {EmptyBody} \cup { [completed |-> c] : c \in BOOLEAN }
Bodies ==
    { t @@ d @@ c : t \in TitleParts, d \in DescParts, c \in CompletedParts }

\* an environment variable is unset, or set to a string
Undefined == << >>
Envs == { Undefined, <<"">>, <<"http://api.example.com">> }

ErrFetch == "Failed to fetch todos. Make sure the backend is running."
ErrSave == "Failed to save todo"
ErrUpdate == "Failed to update todo"
ErrDelete == "Failed to delete todo"

----------------------------------------------------------------------------
(* String.prototype.trim *)

IsSpace(c) == c = " "

RECURSIVE TrimStart(_)
TrimStart(s) ==
    IF Len(s) > 0 /\ IsSpace(Head(s)) THEN TrimStart(Tail(s)) ELSE s

RECURSIVE TrimEnd(_)
TrimEnd(s) ==
    IF Len(s) > 0 /\ IsSpace(s[Len(s)])
    THEN TrimEnd(SubSeq(s, 1, Len(s) - 1))
    ELSE s

trim(s) == TrimEnd(TrimStart(s))

----------------------------------------------------------------------------
(* The service: request layer and repository *)

Has(body, k) == k \in DOMAIN body

TitleValid(t) == Len(trim(t)) > 0

Item(st, id) ==
    [id |-> id, title |-> st[id].title, description |-> st[id].description,
     completed |-> st[id].completed, created_at |-> st[id].created_at]

RECURSIVE ListFrom(_, _)
ListFrom(st, i) ==
    IF i > MaxIds THEN << >>
    ELSE (IF i \in DOMAIN st THEN << Item(st, i) >> ELSE << >>)
         \o ListFrom(st, i + 1)

FindAll(st) == [outcome |-> "ok", store |-> st, data |-> ListFrom(st, 1)]

FindById(st, id) ==
    IF id \in DOMAIN st
    THEN [outcome |-> "ok", store |-> st, data |-> << Item(st, id) >>]
    ELSE [outcome |-> "notfound", store |-> st, data |-> << >>]

NewDoc(body, clk) ==
    [title |-> body.title,
     description |-> IF Has(body, "description") THEN body.description ELSE Empty,
     completed |-> FALSE,
     created_at |-> clk]

\* identifiers taken from a clock too coarse to tell two creates apart
AssignIdCoarse(st, nid) == (nid + 1) \div 2

\* identifiers taken from the number of documents stored
AssignIdByCount(st, nid) == Cardinality(DOMAIN st) + 1

\* the identifier the store gives the next document: never one it gave before
AssignId(st, nid) == nid

Insert(st, nid, clk, body) ==
    IF ~Has(body, "title") \/ ~TitleValid(body.title)
    THEN [outcome |-> "validation", store |-> st, data |-> << >>]
    ELSE LET id == AssignId(st, nid)
             st2 == [i \in DOMAIN st \cup {id} |->
                        IF i = id THEN NewDoc(body, clk) ELSE st[i]]
         IN [outcome |-> "ok", store |-> st2, data |-> << Item(st2, id) >>]

\* a merge in which completed, once true, stays true
MergeCompletedSticks(doc, body) ==
    [title |-> IF Has(body, "title") THEN body.title ELSE doc.title,
     description |-> IF Has(body, "description") THEN body.description
                     ELSE doc.description,
     completed |-> IF Has(body, "completed")
                   THEN doc.completed \/ body.completed
                   ELSE doc.completed,
     created_at |-> doc.created_at]

Merge(doc, body) ==
    [title |-> IF Has(body, "title") THEN body.title ELSE doc.title,
     description |-> IF Has(body, "description") THEN body.description
                     ELSE doc.description,
     completed |-> IF Has(body, "completed") THEN body.completed
                   ELSE doc.completed,
     created_at |-> doc.created_at]

UpdatePartial(st, id, body) ==
    IF Has(body, "title") /\ ~TitleValid(body.title)
    THEN [outcome |-> "validation", store |-> st, data |-> << >>]
    ELSE IF id \notin DOMAIN st
    THEN [outcome |-> "notfound", store |-> st, data |-> << >>]
    ELSE LET st2 == [st EXCEPT ![id] = Merge(st[id], body)]
         IN [outcome |-> "ok", store |-> st2, data |-> << Item(st2, id) >>]

\* a delete that reports success whether or not the document exists
DeleteByIdAlwaysOk(st, id) ==
    [outcome |-> "ok", store |-> [i \in DOMAIN st \ {id} |-> st[i]],
     data |-> << >>]

DeleteById(st, id) ==
    IF id \notin DOMAIN st
    THEN [outcome |-> "notfound", store |-> st, data |-> << >>]
    ELSE [outcome |-> "ok", store |-> [i \in DOMAIN st \ {id} |-> st[i]],
          data |-> << >>]

\* the result of one request against the collection
Handle(st, nid, clk, r) ==
    CASE r.op = "list" -> FindAll(st)
      [] r.op = "get" -> FindById(st, r.id)
      [] r.op = "create" -> Insert(st, nid, clk, r.body)
      [] r.op = "update" -> UpdatePartial(st, r.id, r.body)
      [] r.op = "delete" -> DeleteById(st, r.id)

----------------------------------------------------------------------------
(* Requests in flight *)

Req(rid, client, origin, op, id, body) ==
    [rid |-> rid, client |-> client, origin |-> origin, op |-> op, id |-> id,
     body |-> body, status |-> "sent", outcome |-> "none", data |-> << >>]

Mutating(r) == r.op \in {"create", "update", "delete"}

\* requests of the UI whose continuation will call fetchTodos if they succeed
Reserved == Cardinality({r \in reqs : r.client = "ui" /\ Mutating(r)})

\* request numbers are capped; a mutating UI call keeps one for its re-fetch
CanSend(n) == (nextRid - 1 - extCount) + Reserved + n <= MaxReqs

Send(r) == /\ reqs' = reqs \cup {r}
           /\ nextRid' = nextRid + 1
           /\ UNCHANGED extCount

\* the collection the service starts with: the store's files are durable, so
\* it is empty or holds what earlier requests left in it
SeedDoc ==
    [title |-> <<"a">>, description |-> Empty, completed |-> FALSE,
     created_at |-> 1]

Seeds == { [i \in {} |-> SeedDoc], [i \in {1} |-> SeedDoc] }

\* the state after construction, but for the environment of the build
InitApp ==
    /\ store \in Seeds
    /\ nextId = Cardinality(DOMAIN store) + 1
    /\ clock = Cardinality(DOMAIN store) + 1
    /\ deleted = {}
    /\ reqs = {}
    /\ nextRid = 1
    /\ extCount = 0
    /\ mounted = FALSE
    /\ todos = << >>
    /\ loading = TRUE
    /\ error = NoError
    /\ formData = [title |-> Empty, description |-> Empty]
    /\ editingId = Null
    /\ stale = {}

\* the build of the repository's Dockerfile, which leaves the variable unset
Init ==
    /\ env = Undefined
    /\ InitApp

\* any build
InitUrl ==
    /\ env \in Envs
    /\ InitApp

----------------------------------------------------------------------------
(* The service handles one request *)

Respond(r, h) ==
    [r EXCEPT !.status = "done", !.outcome = h.outcome, !.data = h.data]

Serve(r) ==
    /\ r \in reqs
    /\ r.status = "sent"
    /\ r.op = "create" => nextId <= MaxIds
    /\ LET h == Handle(store, nextId, clock, r)
           created == r.op = "create" /\ h.outcome = "ok"
           removed == r.op = "delete" /\ h.outcome = "ok"
       IN /\ store' = h.store
          /\ nextId' = IF created THEN nextId + 1 ELSE nextId
          /\ clock' = IF created THEN clock + 1 ELSE clock
          /\ deleted' = IF removed THEN deleted \cup {r.id} ELSE deleted
          /\ reqs' = (reqs \ {r}) \cup {Respond(r, h)}
    /\ UNCHANGED <<env, stale, nextRid, extCount, mounted, uiVars>>

\* the store is unreachable, or the request never arrives
ServeUnavailable(r) ==
    /\ r \in reqs
    /\ r.status = "sent"
    /\ reqs' = (reqs \ {r}) \cup
               {Respond(r, [outcome |-> "unavailable", data |-> << >>])}
    /\ UNCHANGED <<env, stale, storeVars, nextRid, extCount, mounted, uiVars>>

----------------------------------------------------------------------------
(* A second client of the API *)

ExtCreateBodies ==
    { [description |-> <<"x">>],
      [title |-> << >>, description |-> <<"x">>],
      [title |-> <<" ">>],
      [title |-> <<"b">>] }

ExtUpdateBodies ==
    { [completed |-> TRUE],
      [completed |-> FALSE],
      [title |-> <<"b">>],
      [title |-> <<" ">>],
      [description |-> <<"x">>] }

ExtSend(op, id, body) ==
    /\ extCount < MaxApi
    /\ reqs' = reqs \cup {Req(nextRid, "ext", "ext", op, id, body)}
    /\ nextRid' = nextRid + 1
    /\ extCount' = extCount + 1
    /\ UNCHANGED <<env, stale, storeVars, mounted, uiVars>>

\* the second client sends any request
ExtRequest ==
    \/ ExtSend("list", Null, EmptyBody)
    \/ \E b \in ExtCreateBodies : ExtSend("create", Null, b)
    \/ \E id \in ExtIds : ExtSend("get", id, EmptyBody)
    \/ \E id \in ExtIds, b \in ExtUpdateBodies : ExtSend("update", id, b)
    \/ \E id \in ExtIds : ExtSend("delete", id, EmptyBody)

ExtRecv(r) ==
    /\ r \in reqs
    /\ r.client = "ext"
    /\ r.status = "done"
    /\ reqs' = reqs \ {r}
    /\ UNCHANGED <<env, stale, storeVars, nextRid, extCount, mounted, uiVars>>

----------------------------------------------------------------------------
(* App.js *)

\* a || b of JavaScript on strings: b when a is undefined or empty
Truthy(e) == e # Undefined /\ e[1] # ""

\* const API_BASE_URL = process.env.REACT_APP_API_BASE_URL || '...'
API_BASE_URL(e) == IF Truthy(e) THEN e[1] ELSE "http://backend:8000/"

\* the template literal each axios call is given
RequestUrl(e, r) ==
    <<API_BASE_URL(e), "/todos">> \o
    (IF r.op \in {"update", "delete"} THEN <<"/", r.id>> ELSE << >>)

Resolved(r) == r.outcome = "ok"

\* the calls of fetchTodos among rs that wait for their response
ListsInFlight(rs) == { q.rid : q \in { x \in rs : x.origin = "fetchTodos" } }

\* fetchTodos up to its await
fetchTodos(pending) ==
    /\ loading' = TRUE
    /\ reqs' = pending \cup
               {Req(nextRid, "ui", "fetchTodos", "list", Null, EmptyBody)}
    /\ nextRid' = nextRid + 1
    /\ UNCHANGED extCount

\* useEffect(() => { fetchTodos(); }, [])
Mount ==
    /\ ~mounted
    /\ mounted' = TRUE
    /\ CanSend(1)
    /\ fetchTodos(reqs)
    /\ UNCHANGED <<env, stale, storeVars, todos, error, formData, editingId>>

\* fetchTodos emptying the list when the GET fails
FetchDoneClearsOnError(r) ==
    /\ r \in reqs
    /\ r.origin = "fetchTodos"
    /\ r.status = "done"
    /\ reqs' = reqs \ {r}
    /\ IF Resolved(r)
       THEN /\ todos' = r.data
            /\ error' = NoError
       ELSE /\ error' = ErrFetch
            /\ todos' = << >>
    /\ stale' = {}
    /\ loading' = FALSE
    /\ UNCHANGED <<env, storeVars, nextRid, extCount, mounted, formData, editingId>>

\* fetchTodos after its await
FetchDone(r) ==
    /\ r \in reqs
    /\ r.origin = "fetchTodos"
    /\ r.status = "done"
    /\ reqs' = reqs \ {r}
    /\ IF Resolved(r)
       THEN /\ todos' = r.data
            /\ error' = NoError
       ELSE /\ error' = ErrFetch
            /\ UNCHANGED todos
    /\ stale' = {}
    /\ loading' = FALSE
    /\ UNCHANGED <<env, storeVars, nextRid, extCount, mounted, formData, editingId>>

\* onChange of the title input and of the description textarea
ChangeTitle(t) ==
    /\ mounted
    /\ formData' = [formData EXCEPT !.title = t]
    /\ UNCHANGED <<env, stale, storeVars, reqs, nextRid, extCount, mounted,
                   todos, loading, error, editingId>>

ChangeDescription(d) ==
    /\ mounted
    /\ formData' = [formData EXCEPT !.description = d]
    /\ UNCHANGED <<env, stale, storeVars, reqs, nextRid, extCount, mounted,
                   todos, loading, error, editingId>>

\* handleSubmit sending the form with completed reset
SubmitRequestResetsCompleted(rid, eid, fd) ==
    LET body == [title |-> fd.title, description |-> fd.description,
                 completed |-> FALSE]
    IN IF eid # Null
       THEN Req(rid, "ui", "handleSubmit", "update", eid, body)
       ELSE Req(rid, "ui", "handleSubmit", "create", Null, body)

\* the request handleSubmit sends
SubmitRequest(rid, eid, fd) ==
    IF eid # Null
    THEN Req(rid, "ui", "handleSubmit", "update", eid, fd)
    ELSE Req(rid, "ui", "handleSubmit", "create", Null, fd)

\* the early return of handleSubmit testing the title without trimming it
SubmitAllowedUntrimmed(fd) == Len(fd.title) > 0

\* whether handleSubmit goes past its early return
SubmitAllowed(fd) == Len(trim(fd.title)) > 0

\* handleSubmit up to its await
HandleSubmit ==
    /\ mounted
    /\ CanSend(2)
    /\ IF SubmitAllowed(formData)
       THEN Send(SubmitRequest(nextRid, editingId, formData))
       ELSE UNCHANGED <<reqs, nextRid, extCount>>
    /\ UNCHANGED <<env, stale, storeVars, mounted, uiVars>>

\* handleSubmit resetting the form in a finally block
SubmitDoneResetsAlways(r) ==
    /\ r \in reqs
    /\ r.origin = "handleSubmit"
    /\ r.status = "done"
    /\ formData' = [title |-> Empty, description |-> Empty]
    /\ IF Resolved(r)
       THEN /\ editingId' = IF r.op = "update" THEN Null ELSE editingId
            /\ fetchTodos(reqs \ {r})
            /\ UNCHANGED <<error, stale>>
       ELSE /\ error' = ErrSave
            /\ stale' = ListsInFlight(reqs)
            /\ reqs' = reqs \ {r}
            /\ UNCHANGED <<nextRid, extCount, loading, editingId>>
    /\ UNCHANGED <<env, storeVars, mounted, todos>>

\* handleSubmit after its await
SubmitDone(r) ==
    /\ r \in reqs
    /\ r.origin = "handleSubmit"
    /\ r.status = "done"
    /\ IF Resolved(r)
       THEN /\ editingId' = IF r.op = "update" THEN Null ELSE editingId
            /\ formData' = [title |-> Empty, description |-> Empty]
            /\ fetchTodos(reqs \ {r})
            /\ UNCHANGED <<error, stale>>
       ELSE /\ error' = ErrSave
            /\ stale' = ListsInFlight(reqs)
            /\ reqs' = reqs \ {r}
            /\ UNCHANGED <<nextRid, extCount, loading, formData, editingId>>
    /\ UNCHANGED <<env, storeVars, mounted, todos>>

\* the todos rendered with their buttons
Rendered == IF loading THEN {} ELSE {todos[i] : i \in 1 .. Len(todos)}

OrEmpty(d) == IF d = Empty THEN Empty ELSE d

HandleEdit(todo) ==
    /\ todo \in Rendered
    /\ formData' = [title |-> todo.title,
                    description |-> OrEmpty(todo.description)]
    /\ editingId' = todo.id
    /\ UNCHANGED <<env, stale, storeVars, reqs, nextRid, extCount, mounted,
                   todos, loading, error>>

HandleCancelEdit ==
    /\ editingId # Null
    /\ formData' = [title |-> Empty, description |-> Empty]
    /\ editingId' = Null
    /\ UNCHANGED <<env, stale, storeVars, reqs, nextRid, extCount, mounted,
                   todos, loading, error>>

\* handleToggleComplete sending the whole todo it displays
ToggleBodyWholeTodo(todo) ==
    [title |-> todo.title, description |-> todo.description,
     completed |-> ~todo.completed]

\* the body handleToggleComplete sends
ToggleBody(todo) == [completed |-> ~todo.completed]

\* handleToggleComplete up to its await
HandleToggleComplete(todo) ==
    /\ todo \in Rendered
    /\ CanSend(2)
    /\ Send(Req(nextRid, "ui", "handleToggleComplete", "update", todo.id,
                ToggleBody(todo)))
    /\ UNCHANGED <<env, stale, storeVars, mounted, uiVars>>

\* handleToggleComplete without the call of fetchTodos after the PUT
ToggleDoneNoFetch(r) ==
    /\ r \in reqs
    /\ r.origin = "handleToggleComplete"
    /\ r.status = "done"
    /\ reqs' = reqs \ {r}
    /\ error' = IF Resolved(r) THEN error ELSE ErrUpdate
    /\ stale' = IF Resolved(r) THEN stale ELSE ListsInFlight(reqs)
    /\ UNCHANGED <<env, storeVars, nextRid, extCount, mounted, todos, loading,
                   formData, editingId>>

\* handleToggleComplete after its await
ToggleDone(r) ==
    /\ r \in reqs
    /\ r.origin = "handleToggleComplete"
    /\ r.status = "done"
    /\ IF Resolved(r)
       THEN /\ fetchTodos(reqs \ {r})
            /\ UNCHANGED <<error, stale>>
       ELSE /\ error' = ErrUpdate
            /\ stale' = ListsInFlight(reqs)
            /\ reqs' = reqs \ {r}
            /\ UNCHANGED <<nextRid, extCount, loading>>
    /\ UNCHANGED <<env, storeVars, mounted, todos, formData, editingId>>

\* handleDelete up to its await; confirmed is the answer to window.confirm
HandleDelete(todoId, confirmed) ==
    /\ \E todo \in Rendered : todo.id = todoId
    /\ CanSend(2)
    /\ IF confirmed
       THEN Send(Req(nextRid, "ui", "handleDelete", "delete", todoId,
                     EmptyBody))
       ELSE UNCHANGED <<reqs, nextRid, extCount>>
    /\ UNCHANGED <<env, stale, storeVars, mounted, uiVars>>

\* handleDelete with an empty catch block
DeleteDoneSilent(r) ==
    /\ r \in reqs
    /\ r.origin = "handleDelete"
    /\ r.status = "done"
    /\ IF Resolved(r)
       THEN fetchTodos(reqs \ {r})
       ELSE /\ reqs' = reqs \ {r}
            /\ UNCHANGED <<nextRid, extCount, loading>>
    /\ UNCHANGED <<env, stale, storeVars, mounted, todos, error, formData,
                   editingId>>

\* handleDelete after its await
DeleteDone(r) ==
    /\ r \in reqs
    /\ r.origin = "handleDelete"
    /\ r.status = "done"
    /\ IF Resolved(r)
       THEN /\ fetchTodos(reqs \ {r})
            /\ UNCHANGED <<error, stale>>
       ELSE /\ error' = ErrDelete
            /\ stale' = ListsInFlight(reqs)
            /\ reqs' = reqs \ {r}
            /\ UNCHANGED <<nextRid, extCount, loading>>
    /\ UNCHANGED <<env, storeVars, mounted, todos, formData, editingId>>

----------------------------------------------------------------------------

Next ==
    \/ \E r \in reqs : Serve(r)
    \/ \E r \in reqs : ServeUnavailable(r)
    \/ Mount
    \/ \E r \in reqs : FetchDone(r)
    \/ \E t \in Titles : ChangeTitle(t)
    \/ \E d \in Descs : ChangeDescription(d)
    \/ HandleSubmit
    \/ \E r \in reqs : SubmitDone(r)
    \/ \E todo \in Rendered : HandleEdit(todo)
    \/ HandleCancelEdit
    \/ \E todo \in Rendered : HandleToggleComplete(todo)
    \/ \E r \in reqs : ToggleDone(r)
    \/ \E todo \in Rendered, c \in BOOLEAN : HandleDelete(todo.id, c)
    \/ \E r \in reqs : DeleteDone(r)

Spec == Init /\ [][Next]_vars

\* the API under the requests of a client that is not the UI, which sends
\* them without waiting for the responses
NextApi ==
    \/ \E r \in reqs : Serve(r)
    \/ \E r \in reqs : ServeUnavailable(r)
    \/ ExtRequest
    \/ \E r \in reqs : ExtRecv(r)

SpecApi == Init /\ [][NextApi]_vars

\* the UI of any build
SpecUrl == InitUrl /\ [][Next]_vars

\* the UI while the service and its store stay reachable: no request fails
\* but by the answer of the service
NextUp ==
    \/ \E r \in reqs : Serve(r)
    \/ Mount
    \/ \E r \in reqs : FetchDone(r)
    \/ \E t \in Titles : ChangeTitle(t)
    \/ \E d \in Descs : ChangeDescription(d)
    \/ HandleSubmit
    \/ \E r \in reqs : SubmitDone(r)
    \/ \E todo \in Rendered : HandleEdit(todo)
    \/ HandleCancelEdit
    \/ \E todo \in Rendered : HandleToggleComplete(todo)
    \/ \E r \in reqs : ToggleDone(r)
    \/ \E todo \in Rendered, c \in BOOLEAN : HandleDelete(todo.id, c)
    \/ \E r \in reqs : DeleteDone(r)

SpecUp == Init /\ [][NextUp]_vars

TypeOK ==
    /\ DOMAIN store \subseteq Ids
    /\ nextId \in 1 .. (MaxIds + 1)
    /\ deleted \subseteq Ids
    /\ nextRid \in 1 .. (MaxReqs + MaxApi + 1)
    /\ extCount \in 0 .. MaxApi
    /\ mounted \in BOOLEAN
    /\ env \in Envs
    /\ loading \in BOOLEAN
    /\ error \in {NoError, ErrFetch, ErrSave, ErrUpdate, ErrDelete}
    /\ formData.title \in Titles \cup {Empty, <<"b">>}
    /\ formData.description \in Descs
    /\ editingId \in Ids \cup {Null}
    /\ stale \subseteq ListsInFlight(reqs)

----------------------------------------------------------------------------
(* Steps, as the properties below speak of them *)

\* the response r is received in this step
Received(r) == r \in reqs /\ r.status = "done" /\ r \notin reqs'

\* the service handles the request r in this step and answers q
ServedAs(r, q) ==
    /\ r \in reqs /\ r.status = "sent"
    /\ q \in reqs' /\ q.rid = r.rid /\ q.status = "done"
    /\ q.outcome # "unavailable"

\* a call of fetchTodos sends its GET /todos in this step
ListIssued ==
    \E q \in reqs' \ reqs :
        q.op = "list" /\ q.origin = "fetchTodos" /\ q.status = "sent"

UiMutating(r) == r.client = "ui" /\ Mutating(r)

----------------------------------------------------------------------------
(* C1 *)

\* C1 as stated: the UI sends a list request when it mounts, and when any
\* mutating call of its own returns, whether the call succeeded or failed.
C1_RefetchAfterEveryCall ==
    [][ /\ (~mounted /\ mounted') => ListIssued
        /\ \A r \in reqs : (UiMutating(r) /\ Received(r)) => ListIssued ]_vars

\* C1, amended: the UI sends a list request once, when it mounts, and when a
\* mutating call of its own (form create, form update, toggle, delete) returns
\* successfully; when the call fails it sends none; it sends a list request at
\* no other step, and it mounts once.
C1_RefetchAfterSuccess ==
    [][ /\ (~mounted /\ mounted') => ListIssued
        /\ mounted => mounted'
        /\ \A r \in reqs :
              (UiMutating(r) /\ Received(r)) => (ListIssued <=> Resolved(r))
        /\ ListIssued =>
              \/ ~mounted /\ mounted'
              \/ \E r \in reqs : UiMutating(r) /\ Received(r) /\ Resolved(r)
      ]_vars

\* a re-fetch is in flight beside the error banner of a failed mutating call
C1_Witness ==
    /\ \E q \in reqs : q.origin = "fetchTodos" /\ q.rid > 1
    /\ error \in {ErrSave, ErrUpdate, ErrDelete}

----------------------------------------------------------------------------
(* C2 *)

Fields == {"title", "description", "completed"}

\* the update of item id with payload b changes only that item, and of that
\* item only the fields b carries
UpdateIsLocal(id, b) ==
    LET h == UpdatePartial(store, id, b)
    IN h.outcome = "ok" =>
          /\ DOMAIN h.store = DOMAIN store
          /\ \A j \in DOMAIN store \ {id} : h.store[j] = store[j]
          /\ h.store[id].created_at = store[id].created_at
          /\ \A f \in Fields \ DOMAIN b : h.store[id][f] = store[id][f]

\* C2: an update leaves every mutable field that its payload does not carry as
\* it was stored, for every stored item and every payload over a subset of
\* {title, description, completed} (checked, where the service handles an
\* update, for the payload sent and for every other payload in its place); the
\* PUT of the form (title and description) never changes completed, and the
\* PUT of the toggle (completed) never changes title or description.
C2_PartialUpdateLocality ==
    [][ \A r \in reqs, q \in reqs' :
          (ServedAs(r, q) /\ r.op = "update" /\ r.id \in DOMAIN store) =>
              /\ \A b \in Bodies : UpdateIsLocal(r.id, b)
              /\ DOMAIN store' = DOMAIN store
              /\ \A j \in DOMAIN store \ {r.id} : store'[j] = store[j]
              /\ store'[r.id].created_at = store[r.id].created_at
              /\ \A f \in Fields \ DOMAIN r.body :
                    store'[r.id][f] = store[r.id][f]
              /\ r.origin = "handleSubmit" =>
                    store'[r.id].completed = store[r.id].completed
              /\ r.origin = "handleToggleComplete" =>
                    /\ store'[r.id].title = store[r.id].title
                    /\ store'[r.id].description = store[r.id].description
      ]_vars

\* the form's PUT has been applied to a completed item, which is still completed
C2_Witness ==
    \E r \in reqs :
        /\ r.origin = "handleSubmit" /\ r.op = "update"
        /\ r.status = "done" /\ r.outcome = "ok"
        /\ r.data[1].completed = TRUE

----------------------------------------------------------------------------
(* C3 *)

UpdateApplied(r) ==
    r.op = "update" /\ r.status = "done" /\ r.outcome = "ok"

\* the two requests sent after the mount's list are the only writes so far
OnlyWrites(r1, r2) ==
    /\ {r1.rid, r2.rid} = {2, 3}
    /\ \A q \in reqs \ {r1, r2} : Mutating(q) => q.outcome # "ok"

\* C3: when two updates of the same item are in flight together, each is
\* applied as a merge-patch, and the stored item is the result of applying the
\* two patches in the order the store committed them: a field both set holds
\* the later value, a field one of them set holds that value, a field neither
\* set holds what it held before; a form edit and a toggle in flight together
\* both take effect.
C3_ConcurrentUpdatesMerge ==
    \A r1, r2 \in reqs :
        ( /\ UpdateApplied(r1) /\ UpdateApplied(r2)
          /\ r1.id = r2.id /\ r1.id \in DOMAIN store
          /\ OnlyWrites(r1, r2) ) =>
        /\ \E order \in { <<r1, r2>>, <<r2, r1>> } :
              LET first == order[1]
                  second == order[2]
                  id == first.id
                  afterFirst == [i \in {id} |-> Merge(SeedDoc, first.body)]
              IN /\ first.data = << Item(afterFirst, id) >>
                 /\ second.data = << Item(store, id) >>
                 /\ \A f \in Fields :
                       store[id][f] =
                          IF Has(second.body, f) THEN second.body[f]
                          ELSE IF Has(first.body, f) THEN first.body[f]
                          ELSE SeedDoc[f]
        /\ ( r1.origin = "handleSubmit" /\ r2.origin = "handleToggleComplete" )
              => /\ store[r1.id].title = r1.body.title
                 /\ store[r1.id].description = r1.body.description
                 /\ store[r1.id].completed = r2.body.completed

\* a form edit and a toggle of the same item, in flight together, both applied
C3_Witness ==
    \E r1, r2 \in reqs :
        /\ UpdateApplied(r1) /\ UpdateApplied(r2)
        /\ r1.id = r2.id /\ r1.id \in DOMAIN store
        /\ OnlyWrites(r1, r2)
        /\ r1.origin = "handleSubmit" /\ r2.origin = "handleToggleComplete"
        /\ store[r1.id].description = <<"x">>
        /\ store[r1.id].completed = TRUE

----------------------------------------------------------------------------
(* C5 *)

\* the message each handler passes to setError in its catch block
ErrorFor(origin) ==
    CASE origin = "fetchTodos" -> ErrFetch
      [] origin = "handleSubmit" -> ErrSave
      [] origin = "handleToggleComplete" -> ErrUpdate
      [] origin = "handleDelete" -> ErrDelete

\* C5: when a call of the UI fails (list, form create, form update, toggle,
\* delete), whatever the failure the service answered with, the UI sets error to
\* the fixed message of that operation; error never holds anything but null or
\* one of these messages, and nothing else of the UI state records the failure.
C5_GenericErrorBanner ==
    [][ /\ \A r \in reqs :
              (r.client = "ui" /\ Received(r) /\ ~Resolved(r)) =>
                  /\ error' = ErrorFor(r.origin)
                  /\ todos' = todos
                  /\ formData' = formData
                  /\ editingId' = editingId
        /\ error' \in {NoError, ErrFetch, ErrSave, ErrUpdate, ErrDelete}
      ]_vars

\* a delete the service answered with not-found has raised the delete banner
C5_Witness ==
    /\ error = ErrDelete
    /\ deleted # {}

----------------------------------------------------------------------------
(* C7 *)

TitleMissingOrBlank(b) == ~Has(b, "title") \/ Len(trim(b.title)) = 0
TitleBlank(b) == Has(b, "title") /\ Len(trim(b.title)) = 0

\* every stored item has a title that is not empty once trimmed, a completed
\* that is true or false, and an id no other listed item has
StoredItemsValid ==
    /\ \A id \in DOMAIN store :
          /\ Len(trim(store[id].title)) > 0
          /\ store[id].completed \in BOOLEAN
    /\ LET all == FindAll(store).data
       IN \A i, j \in 1 .. Len(all) : i # j => all[i].id # all[j].id

\* in this state a create, or an update of a stored item, is rejected and
\* changes nothing if its title is missing, empty or blank
InvalidRejectedNow ==
    /\ \A b \in Bodies :
          TitleMissingOrBlank(b) =>
              LET h == Insert(store, nextId, clock, b)
              IN h.outcome = "validation" /\ h.store = store
    /\ \A id \in DOMAIN store, b \in Bodies :
          TitleBlank(b) =>
              LET h == UpdatePartial(store, id, b)
              IN h.outcome = "validation" /\ h.store = store

\* where the service handles a create or an update, the request is rejected
\* and changes nothing if its title is missing, empty or blank, and so would
\* any such request in its place
InvalidRejected ==
    \A r \in reqs, q \in reqs' :
        (ServedAs(r, q) /\ r.op \in {"create", "update"}) =>
            /\ (r.op = "create" /\ TitleMissingOrBlank(r.body)) =>
                  (q.outcome = "validation" /\ store' = store)
            /\ (r.op = "update" /\ TitleBlank(r.body)) =>
                  (q.outcome = "validation" /\ store' = store)
            /\ InvalidRejectedNow

\* the form sends no create and no update whose trimmed title is empty
FormSendsValidTitle ==
    \A r \in reqs :
        r.origin = "handleSubmit" =>
            Has(r.body, "title") /\ Len(trim(r.body.title)) > 0

\* C7: in every reachable state every stored item has a non-empty trimmed
\* title, a completed that is exactly true or false, and an id that differs
\* from every other stored item's; a create or update request whose title is
\* missing, empty or whitespace-only is rejected with a validation error and
\* leaves the collection unchanged; and the form never sends a create or an
\* update when the trimmed title is empty.
C7_StoredItemsValid ==
    [](StoredItemsValid /\ FormSendsValidTitle) /\ [][InvalidRejected]_vars

\* the form holds a whitespace-only title after the UI has created an item
C7_Witness ==
    /\ formData.title = <<" ">>
    /\ \E id \in DOMAIN store : store[id].created_at > 1
    /\ \E r \in reqs : r.origin = "handleSubmit"

----------------------------------------------------------------------------
(* C10 *)

\* C10: the UI's todos changes only by being assigned the body of a list
\* response that succeeded; no create, update, toggle or delete handler and no
\* failed list call changes it.
C10_TodosOnlyFromList ==
    [][ todos' # todos =>
          \E r \in reqs :
              /\ r.origin = "fetchTodos" /\ r.op = "list"
              /\ Received(r) /\ Resolved(r)
              /\ todos' = r.data ]_vars

\* a failed list call has left a list that an earlier response filled
C10_Witness ==
    /\ Len(todos) > 0
    /\ error = ErrFetch
    /\ deleted # {}

----------------------------------------------------------------------------
(* C4 *)

CreateApplied(r) ==
    r.op = "create" /\ r.status = "done" /\ r.outcome = "ok"

\* C4: while nothing has been deleted, the creates that succeeded, in flight
\* together or not, have each stored one item: the collection holds as many
\* items as creates succeeded, the ids their responses carry differ pairwise and
\* are the ids of stored items; and a list handled when no create is pending
\* returns exactly the items created, each once.
C4_ConcurrentCreates ==
    [][ deleted = {} =>
          /\ Cardinality(DOMAIN store) = clock - 1
          /\ \A r \in reqs :
                CreateApplied(r) =>
                    /\ r.data[1].id \in DOMAIN store
                    /\ r.data[1].title = r.body.title
                    /\ \A r2 \in reqs \ {r} :
                          CreateApplied(r2) => r2.data[1].id # r.data[1].id
          /\ \A r \in reqs, q \in reqs' :
                ( /\ ServedAs(r, q) /\ r.op = "list"
                  /\ \A c \in reqs : c.op = "create" => c.status = "done" ) =>
                    /\ q.outcome = "ok"
                    /\ Len(q.data) = clock - 1
                    /\ \A i, j \in 1 .. Len(q.data) :
                          i # j => q.data[i].id # q.data[j].id
                    /\ \A c \in reqs :
                          CreateApplied(c) =>
                              \E i \in 1 .. Len(q.data) :
                                  q.data[i].id = c.data[1].id
      ]_vars

\* two creates in flight together have succeeded, and a list handled after
\* them has returned two items
C4_Witness ==
    \E r1, r2, l \in reqs :
        /\ CreateApplied(r1) /\ CreateApplied(r2) /\ r1 # r2
        /\ l.op = "list" /\ l.status = "done" /\ l.outcome = "ok"
        /\ Len(l.data) = 2

----------------------------------------------------------------------------
(* C6 *)

\* C6: update(id, {completed: true}) followed by update(id, {completed: false})
\* on a stored item succeeds twice and leaves completed false and title,
\* description and created_at as they were before the first update; and each
\* update carrying only completed that the service handles for a stored item
\* succeeds, sets completed to the value sent (true to false included) and
\* changes nothing else.
C6_ToggleRoundTrip ==
    [][ \A r \in reqs, q \in reqs' :
          ( /\ ServedAs(r, q) /\ r.op = "update" /\ r.id \in DOMAIN store
            /\ DOMAIN r.body = {"completed"} ) =>
              /\ q.outcome = "ok"
              /\ store' = [store EXCEPT ![r.id].completed = r.body.completed]
              /\ LET h1 == UpdatePartial(store, r.id, [completed |-> TRUE])
                     h2 == UpdatePartial(h1.store, r.id, [completed |-> FALSE])
                 IN /\ h1.outcome = "ok" /\ h1.store[r.id].completed = TRUE
                    /\ h2.outcome = "ok"
                    /\ h2.store = [store EXCEPT ![r.id].completed = FALSE]
      ]_vars

\* completed was set to true and then to false, and the item is pending again
C6_Witness ==
    \E r1, r2 \in reqs :
        /\ UpdateApplied(r1) /\ r1.body = [completed |-> TRUE]
        /\ UpdateApplied(r2) /\ r2.body = [completed |-> FALSE]
        /\ r1.id = r2.id /\ r1.id \in DOMAIN store
        /\ r1.data[1].completed = TRUE
        /\ store[r1.id].completed = FALSE

----------------------------------------------------------------------------
(* C8 *)

\* C8: a delete the service handles for an id that is not stored, because the
\* id never existed or because it was deleted before, is answered not-found and
\* changes nothing, and so is the same delete repeated; no delete is ever
\* answered with any error but not-found.
C8_DeleteAbsentNotFound ==
    [][ /\ \A r \in reqs, q \in reqs' :
              (ServedAs(r, q) /\ r.op = "delete" /\ r.id \notin DOMAIN store) =>
                  /\ q.outcome = "notfound"
                  /\ store' = store /\ deleted' = deleted
                  /\ LET h == DeleteById(store', r.id)
                     IN h.outcome = "notfound" /\ h.store = store
        /\ \A r \in reqs :
              (r.op = "delete" /\ r.status = "done") =>
                  r.outcome \in {"ok", "notfound", "unavailable"}
      ]_vars

\* a delete of an id already deleted has been answered not-found
C8_Witness ==
    \E r \in reqs :
        /\ r.op = "delete" /\ r.status = "done" /\ r.outcome = "notfound"
        /\ r.id \in deleted

----------------------------------------------------------------------------
(* C9 *)

TitleAcceptable(b) == Has(b, "title") => Len(trim(b.title)) > 0

\* C9: in every state after delete(id) has succeeded, id is not stored, get(id)
\* is answered not-found, update(id, b) changes nothing and succeeds for no
\* payload b (it is answered not-found for every payload that passes
\* validation), no item of list() has that id, and the next create is not given
\* that id.
C9_DeleteIsPermanent ==
    \A id \in deleted :
        /\ id \notin DOMAIN store
        /\ FindById(store, id).outcome = "notfound"
        /\ \A b \in Bodies :
              LET h == UpdatePartial(store, id, b)
              IN /\ h.outcome \in {"notfound", "validation"}
                 /\ h.store = store
                 /\ TitleAcceptable(b) => h.outcome = "notfound"
        /\ LET all == FindAll(store).data
           IN \A i \in 1 .. Len(all) : all[i].id # id
        /\ \A b \in Bodies :
              LET h == Insert(store, nextId, clock, b)
              IN id \notin DOMAIN h.store

\* an item was created after another was deleted
C9_Witness ==
    /\ deleted # {}
    /\ \E id \in DOMAIN store : \A d \in deleted : d < id

----------------------------------------------------------------------------
(* C11 *)

\* the base URL the README documents: the variable when it is provided (set to
\* a string that is not empty), http://localhost:8000 otherwise
DocumentedBaseUrl(e) == IF Truthy(e) THEN e[1] ELSE "http://localhost:8000"

\* C11: the URL of every request of the UI starts with the value of
\* REACT_APP_API_BASE_URL when the variable is provided, and with
\* http://localhost:8000 otherwise.
C11_BaseUrlDefault ==
    \A r \in reqs :
        r.client = "ui" => RequestUrl(env, r)[1] = DocumentedBaseUrl(env)

----------------------------------------------------------------------------
(* C12 *)

\* every request the UI has issued has completed, its response received
Quiescent == mounted /\ reqs = {}

\* C12: with the UI as the only client, where every list request succeeds,
\* once every request the UI has issued has completed the local todos is the
\* collection of the store, whatever the order in which the service handled
\* the requests and the responses arrived.
C12_TodosEqualStore == Quiescent => todos = FindAll(store).data

----------------------------------------------------------------------------
(* C13 *)

\* C13: where the PUT of handleToggleComplete succeeds, the stored completed
\* of the item becomes the negation of what was stored immediately before the
\* PUT, also when the item is clicked again before the list re-fetch of the
\* first click has updated the local list.
C13_ToggleFlipsStored ==
    [][ \A r \in reqs, q \in reqs' :
          ( /\ ServedAs(r, q) /\ r.origin = "handleToggleComplete"
            /\ q.outcome = "ok" ) =>
              store'[r.id].completed = ~store[r.id].completed ]_vars

----------------------------------------------------------------------------
(* C14 *)

\* C14: in every reachable state where editingId is not null, it is the id of
\* an item of the local todos that the store still holds.
C14_EditingTargetExists ==
    editingId # Null =>
        /\ \E i \in 1 .. Len(todos) : todos[i].id = editingId
        /\ editingId \in DOMAIN store

----------------------------------------------------------------------------
(* C15 *)

\* C15: when the POST or PUT of handleSubmit succeeds, formData becomes
\* {title: '', description: ''} and, for a PUT, editingId becomes null; when it
\* fails, formData and editingId stay as they were, no list request is sent
\* and of the UI state only error changes; and handleSubmit sends a request
\* only when the trimmed title of the form is not empty, changing no UI state
\* as it sends.
C15_SubmitResetsOnSuccess ==
    [][ /\ \A r \in reqs :
              (r.origin = "handleSubmit" /\ Received(r)) =>
                  IF Resolved(r)
                  THEN /\ formData' = [title |-> Empty, description |-> Empty]
                       /\ r.op = "update" => editingId' = Null
                  ELSE /\ formData' = formData
                       /\ editingId' = editingId
                       /\ ~ListIssued
                       /\ reqs' = reqs \ {r}
                       /\ error' = ErrSave
                       /\ todos' = todos /\ loading' = loading
        /\ \A q \in reqs' \ reqs :
              (q.origin = "handleSubmit" /\ q.status = "sent") =>
                  /\ Len(trim(formData.title)) > 0
                  /\ UNCHANGED uiVars
      ]_vars

\* a PUT of the form has failed, and the form still holds the edit
C15_Witness ==
    /\ error = ErrSave
    /\ editingId # Null
    /\ formData = [title |-> <<"a">>, description |-> <<"x">>]
    /\ ~\E r \in reqs : r.origin = "handleSubmit"

----------------------------------------------------------------------------
(* C16 *)

\* a call of fetchTodos is waiting for its response
ListInFlight == \E r \in reqs : r.origin = "fetchTodos" /\ r.op = "list"

\* C16: loading is true in every state in which at least one list request of
\* the UI is in flight, overlapping list requests included.
C16_LoadingTracksLists == ListInFlight => loading

----------------------------------------------------------------------------
(* C17 *)

\* C17: error goes from a message to null only where a list response that
\* succeeded is received, and where the message was that of a failed create,
\* update, toggle or delete, the list request was sent after that failure: it
\* was not in flight when the banner rose.
C17_BannerClearedByLaterList ==
    [][ (error # NoError /\ error' = NoError) =>
          \E r \in reqs :
              /\ r.origin = "fetchTodos" /\ Received(r) /\ Resolved(r)
              /\ r.rid \notin stale ]_vars

====
